---- MODULE Spec2Model ----
(***************************************************************************)
(* PlexAutoSkip, resources/skipper.py: the session registry, the control   *)
(* loop (Skipper.start / checkMedia), the event path (processAlert /       *)
(* addSession) and the seek / volume workers (_seekTo / _setVolume), with  *)
(* the interleavings of the three kinds of thread.                         *)
(*                                                                         *)
(* Positions and durations are in abstract time units (the code's ms);     *)
(* sinceLastUpdate is in seconds.                                          *)
(***************************************************************************)
EXTENDS Integers, Sequences, FiniteSets, Bags, TLC

VARIABLES
    settings,        \* self.settings (+ customEntries): fixed after __init__
    env,             \* what the server and the clients can deliver: library, play queues, replies
    wrappers,        \* the MediaWrapper objects, by object id
    media_sessions,  \* self.media_sessions: dict in insertion order (Seq of object ids)
    ignored,         \* self.ignored: list of pasIdentifiers
    pc,              \* position of the control loop and of the event callback
    cur,             \* the MediaWrapper each of them is running checkMedia on
    snap,            \* list(self.media_sessions.values()) still to visit in this tick
    alert,           \* the event being processed by processAlert
    workers,         \* bag of running Thread(target=_seekTo / _setVolume)
    clientVol,       \* the volume each client plays at (player.timeline.volume)
    sent,            \* history: the last seek command each client received
    decided          \* history: the last session processAlert found new, and its admission

vars == << settings, env, wrappers, media_sessions, ignored, pc, cur, snap,
           alert, workers, clientVol, sent, decided >>

----------------------------------------------------------------------------
(* Bounds of the model *)

\* MediaWrapper objects alive at the same time, worker threads alive at the same
\* time: each specification runs with the smaller or the larger number of each
MinWrappers == 1
MaxWrappers == 2
MinWorkers == 1
MaxWorkers == 2
\* the session keys the server hands out: 1, 2, ... up to this one
MaxSessionKey == 203

(* Program constants *)

TIMEOUT == 30
\* seconds added by one passage of time: a session is fresh, or older than TIMEOUT
TimeStep == TIMEOUT + 1
IGNORED_CAP == 200
DEFAULT_CLIENT_PORT == 32500

SKIP == "skip"
VOLUME == "volume"

Clients == {"c1", "c2"}
SessionKeys == {1, 2}
PasIds == SessionKeys \X Clients

\* MediaWrapper.getSessionClientIdentifier(sessionKey, clientIdentifier)
getSessionClientIdentifier(sessionKey, clientIdentifier) == <<sessionKey, clientIdentifier>>

\* player.product of each client
Product(c) == IF c = "c1" THEN "Plex for Roku" ELSE "Plex for Windows"
\* player.title of each client
Title(c) == IF c = "c1" THEN "Living Room" ELSE "Desktop"
\* session.usernames of the sessions of each client
Usernames(c) == IF c = "c1" THEN {"alice"} ELSE {"bob", "carol"}

\* Settings.SKIP_TYPES
ALWAYS == "always"
NEVER == "never"
WATCHED == "watched"

\* str.lower() on the library titles of the server
Lower(title) ==
    CASE title = "Kids" -> "kids"
      [] title = "TV Shows" -> "tv shows"
      [] OTHER -> title

PROXY_ONLY == {"Plex Web", "Plex for Windows", "Plex for Mac", "Plex for Linux"}

BROKEN_CLIENTS == [p \in PROXY_ONLY |->
                      IF p = "Plex Web" THEN <<4, 83, 2>> ELSE <<1, 46, 1>>]

\* player.version as parse_version reads it: 1.9.9, 1.46.0, 1.46.1, 1.100.0
Versions == {<<1, 9, 9>>, <<1, 46, 0>>, <<1, 46, 1>>, <<1, 100, 0>>}

NoRange == [start |-> -1, end |-> -1]

ObjIds == 1..MaxWrappers
NoObj == 0
NoWrapper == [pid |-> <<0, "">>]

Threads == {"loop", "evt"}

Results == {"ok", "parse", "bad", "timeout", "error"}

----------------------------------------------------------------------------
(* Pure helpers *)

Min(a, b) == IF a < b THEN a ELSE b

\* parse_version(a) >= parse_version(b) on dotted numeric versions of three parts
VersionGE(a, b) ==
    \/ a[1] > b[1]
    \/ a[1] = b[1] /\ a[2] > b[2]
    \/ a[1] = b[1] /\ a[2] = b[2] /\ a[3] >= b[3]

\* start <= viewOffset <= end
InRange(r, p) == r.start <= p /\ p <= r.end

\* the index at which the loop `for x in seq: if ...: return` stops, given the
\* indices whose element passes the test; 0 if none does
FirstIdx(hits) ==
    IF hits = {} THEN 0 ELSE CHOOSE i \in hits : \A j \in hits : i <= j

IsSkip(m) == m.mode = SKIP
IsVolume(m) == m.mode = VOLUME

\* `a or b` on integers: a unless it is falsy (0 / None)
OrElse(a, b) == IF a # 0 THEN a ELSE b

Range3(a, b, mode) == [start |-> a, end |-> b, mode |-> mode]
Range2(a, b) == [start |-> a, end |-> b]

\* The content on the server, duration 6. A MediaWrapper holds the name of its
\* content: the mode it runs in, its custom ranges, its generated chapter ranges, its
\* server markers, its last chapter and its own offsets.
CustomMarkersOf(name) ==
    CASE name = "end"  -> << Range3(4, 6, SKIP), Range3(5, 6, VOLUME) >>
      [] name = "skip" -> << Range3(2, 3, SKIP) >>
      [] name = "two"  -> << Range3(1, 4, SKIP), Range3(2, 3, SKIP) >>
      [] name = "low"  -> << Range3(2, 3, VOLUME) >>
      [] OTHER -> << >>

ChaptersOf(name) ==
    CASE name = "mid" -> << Range2(2, 4) >>
      [] OTHER -> << >>

MarkersOf(name) ==
    CASE name = "intro" -> << Range2(0, 1) >>
      [] name = "long"  -> << Range2(0, 3) >>
      [] OTHER -> << >>

LastChapterOf(name) ==
    CASE name = "late" -> Range2(3, 6)
      [] OTHER -> NoRange

OffsetsOf(name) ==
    CASE name = "own" -> [left |-> 2, right |-> -1]
      [] OTHER -> [left |-> 0, right |-> 0]

\* media.duration: short content for the range checks, a feature of ten minutes (ms)
DurationOf(length) == IF length = "feature" THEN 600000 ELSE 6

\* The attributes of a media item the admission rules read; 0 stands for an
\* attribute the item does not have (hasattr is false), "" for a title that is None
Content(type, library, episodeNumber, seasonNumber, isWatched) ==
    [type |-> type, librarySectionTitle |-> library,
     episodeNumber |-> episodeNumber, seasonNumber |-> seasonNumber,
     isWatched |-> isWatched,
     ratingKey |-> 10, parentRatingKey |-> 20, grandparentRatingKey |-> 30]

MediaId(mode, customs, chapters, markers, lastchapter, offsets) ==
    [mode |-> mode, customs |-> customs, chapters |-> chapters, markers |-> markers,
     lastchapter |-> lastchapter, offsets |-> offsets, length |-> "short",
     content |-> Content("episode", "TV Shows", 2, 2, TRUE)]

MediaOf(id) ==
    [duration |-> DurationOf(id.length), mode |-> id.mode,
     leftOffset |-> OffsetsOf(id.offsets).left,
     rightOffset |-> OffsetsOf(id.offsets).right,
     customMarkers |-> CustomMarkersOf(id.customs),
     chapters |-> ChaptersOf(id.chapters),
     markers |-> MarkersOf(id.markers),
     lastchapter |-> LastChapterOf(id.lastchapter)]

\* mediaWrapper.media and the ranges MediaWrapper resolved for it
M(w) == MediaOf(w.media)

NoSeek == [fire |-> FALSE, target |-> 0, source |-> "none"]
Seek(t, src) == [fire |-> TRUE, target |-> t, source |-> src]

\* the gate of the last-chapter shortcut:
\* settings.skiplastchapter and lastchapter and lastchapter.start / duration > skiplastchapter
\* (skiplastchapter is a fraction, held here in percent)
LastChapterGate(w) ==
    /\ settings.skiplastchapter # 0
    /\ M(w).lastchapter # NoRange
    /\ M(w).lastchapter.start * 100 > settings.skiplastchapter * M(w).duration

\* checkMediaSkip with the server markers tried before the chapters
checkMediaSkipMarkersFirst(w, leftOffset, rightOffset) ==
    LET p == w.viewOffset
        skipMarkers == SelectSeq(M(w).customMarkers, IsSkip)
        InP(r) == InRange(r, p)
        InPadded(r) == (r.start + leftOffset) <= p /\ p <= r.end
        ci == FirstIdx({i \in DOMAIN skipMarkers : InP(skipMarkers[i])})
        hi == FirstIdx({i \in DOMAIN M(w).chapters : InP(M(w).chapters[i])})
        mi == FirstIdx({i \in DOMAIN M(w).markers : InPadded(M(w).markers[i])})
    IN  IF ci # 0 THEN Seek(skipMarkers[ci].end, "custom")
        ELSE IF M(w).mode # SKIP THEN NoSeek
        ELSE IF LastChapterGate(w) /\ InRange(M(w).lastchapter, p)
             THEN Seek(M(w).duration, "lastchapter")
        ELSE IF mi # 0 THEN Seek(M(w).markers[mi].end + rightOffset, "marker")
        ELSE IF hi # 0 THEN Seek(M(w).chapters[hi].end, "chapter")
        ELSE NoSeek

\* checkMediaSkip: the seek it dispatches, if any
checkMediaSkip(w, leftOffset, rightOffset) ==
    LET p == w.viewOffset
        skipMarkers == SelectSeq(M(w).customMarkers, IsSkip)
        InP(r) == InRange(r, p)
        InPadded(r) == (r.start + leftOffset) <= p /\ p <= r.end
        ci == FirstIdx({i \in DOMAIN skipMarkers : InP(skipMarkers[i])})
        hi == FirstIdx({i \in DOMAIN M(w).chapters : InP(M(w).chapters[i])})
        mi == FirstIdx({i \in DOMAIN M(w).markers : InPadded(M(w).markers[i])})
    IN  IF ci # 0 THEN Seek(skipMarkers[ci].end, "custom")
        ELSE IF M(w).mode # SKIP THEN NoSeek
        ELSE IF LastChapterGate(w) /\ InRange(M(w).lastchapter, p)
             THEN Seek(M(w).duration, "lastchapter")
        ELSE IF hi # 0 THEN Seek(M(w).chapters[hi].end, "chapter")
        ELSE IF mi # 0 THEN Seek(M(w).markers[mi].end + rightOffset, "marker")
        ELSE NoSeek

\* shouldLowerMediaVolume
shouldLowerMediaVolume(w, leftOffset, rightOffset) ==
    LET p == w.viewOffset
        customVolumeMarkers == SelectSeq(M(w).customMarkers, IsVolume)
    IN  IF \E i \in DOMAIN customVolumeMarkers : InRange(customVolumeMarkers[i], p)
        THEN TRUE
        ELSE IF M(w).mode # VOLUME THEN FALSE
        ELSE IF LastChapterGate(w) /\ InRange(M(w).lastchapter, p) THEN TRUE
        ELSE IF \E i \in DOMAIN M(w).chapters : InRange(M(w).chapters[i], p)
             THEN TRUE
        ELSE \E i \in DOMAIN M(w).markers :
                /\ (M(w).markers[i].start + leftOffset) <= p
                /\ p <= (M(w).markers[i].end + rightOffset)

\* shouldSkipNext
shouldSkipNext(w) ==
    IF /\ settings.allowedSkipNext # {}
       /\ Title(w.clientIdentifier) \notin settings.allowedSkipNext
       /\ w.clientIdentifier \notin settings.allowedSkipNext
    THEN FALSE
    ELSE IF /\ settings.blockedSkipNext # {}
            /\ \/ Title(w.clientIdentifier) \in settings.blockedSkipNext
               \/ w.clientIdentifier \in settings.blockedSkipNext
    THEN FALSE
    ELSE settings.skipnext

\* the end-of-playback condition with the position strictly beyond the threshold
EndOfPlaybackBeyond(w) ==
    /\ w.viewOffset > (M(w).duration - settings.durationOffset)
    /\ shouldSkipNext(w)

\* the end-of-playback condition of checkMedia
EndOfPlayback(w) ==
    /\ w.viewOffset >= (M(w).duration - settings.durationOffset)
    /\ shouldSkipNext(w)

\* validPlayer
\* blockedClientUser; player.title of a session without player raises, which
\* processAlert catches (line 342): the alert has no effect, as for a blocked session
blockedClientUser(w) ==
    LET usernames == Usernames(w.clientIdentifier)
        clients == settings.allowedClients \cup settings.blockedClients
    IN  IF usernames \cap settings.blockedUsers # {} THEN TRUE
        ELSE IF settings.allowedUsers # {} /\ usernames \cap settings.allowedUsers = {}
        THEN TRUE
        ELSE IF clients # {} /\ ~w.hasPlayer THEN TRUE
        ELSE IF /\ settings.allowedClients # {}
                /\ Title(w.clientIdentifier) \notin settings.allowedClients
                /\ w.clientIdentifier \notin settings.allowedClients
        THEN TRUE
        ELSE /\ settings.blockedClients # {}
             /\ \/ Title(w.clientIdentifier) \in settings.blockedClients
                \/ w.clientIdentifier \in settings.blockedClients

\* the rule of shouldAdd for a first episode under policy skip (lines 396-401, 403-408)
FirstEpisodeBlocks(skip, media) ==
    \/ skip = NEVER
    \/ skip = WATCHED /\ ~media.isWatched

\* the keys of the media item that exist: its own, its parent's, its grandparent's
KeysOf(media) ==
    {media.ratingKey, media.parentRatingKey, media.grandparentRatingKey} \ {0}

\* shouldAdd with the key lists consulted before the first-episode policies
shouldAddKeysFirst(w) ==
    LET media == w.media.content
    IN  IF media.type \notin settings.types THEN FALSE
        ELSE IF /\ media.librarySectionTitle # ""
                /\ Lower(media.librarySectionTitle) \in settings.ignoredlibraries
        THEN FALSE
        ELSE IF KeysOf(media) \cap settings.blockedKeys # {} THEN FALSE
        ELSE IF KeysOf(media) \cap settings.allowedKeys # {} THEN TRUE
        ELSE IF media.episodeNumber = 1 /\ FirstEpisodeBlocks(settings.skipE01, media)
        THEN FALSE
        ELSE IF /\ media.episodeNumber = 1 /\ media.seasonNumber = 1
                /\ FirstEpisodeBlocks(settings.skipS01E01, media)
        THEN FALSE
        ELSE IF settings.allowedKeys # {} THEN FALSE
        ELSE settings.skipunwatched \/ media.isWatched

\* shouldAdd with a key on the allowed list admitting before the blocked list is read
shouldAddAllowedWins(w) ==
    LET media == w.media.content
    IN  IF media.type \notin settings.types THEN FALSE
        ELSE IF /\ media.librarySectionTitle # ""
                /\ Lower(media.librarySectionTitle) \in settings.ignoredlibraries
        THEN FALSE
        ELSE IF media.episodeNumber = 1 /\ FirstEpisodeBlocks(settings.skipE01, media)
        THEN FALSE
        ELSE IF /\ media.episodeNumber = 1 /\ media.seasonNumber = 1
                /\ FirstEpisodeBlocks(settings.skipS01E01, media)
        THEN FALSE
        ELSE IF KeysOf(media) \cap settings.allowedKeys # {}
        THEN settings.skipunwatched \/ media.isWatched
        ELSE IF KeysOf(media) \cap settings.blockedKeys # {} THEN FALSE
        ELSE IF settings.allowedKeys # {} THEN FALSE
        ELSE settings.skipunwatched \/ media.isWatched

\* shouldAdd
shouldAdd(w) ==
    LET media == w.media.content
    IN  IF media.type \notin settings.types THEN FALSE
        ELSE IF /\ media.librarySectionTitle # ""
                /\ Lower(media.librarySectionTitle) \in settings.ignoredlibraries
        THEN FALSE
        ELSE IF media.episodeNumber = 1 /\ FirstEpisodeBlocks(settings.skipE01, media)
        THEN FALSE
        ELSE IF /\ media.episodeNumber = 1 /\ media.seasonNumber = 1
                /\ FirstEpisodeBlocks(settings.skipS01E01, media)
        THEN FALSE
        ELSE IF KeysOf(media) \cap settings.blockedKeys # {} THEN FALSE
        ELSE IF settings.allowedKeys # {} /\ KeysOf(media) \cap settings.allowedKeys = {}
        THEN FALSE
        ELSE settings.skipunwatched \/ media.isWatched

\* validPlayer rejecting only the versions after the broken one
validPlayerAfter(product, version) ==
    ~ (product \in DOMAIN BROKEN_CLIENTS /\ VersionGE(version, BROKEN_CLIENTS[product])
                                         /\ version # BROKEN_CLIENTS[product])

validPlayer(product, version) ==
    ~ (product \in DOMAIN BROKEN_CLIENTS /\ VersionGE(version, BROKEN_CLIENTS[product]))

----------------------------------------------------------------------------
(* MediaWrapper objects *)

\* MediaWrapper.__init__
MediaWrapper(pid, viewOffset, media, playQueueID, hasPlayer) ==
    [ pid |-> pid,
      clientIdentifier |-> pid[2],
      viewOffset |-> viewOffset,
      seeking |-> FALSE,
      loweringVolume |-> FALSE,
      cachedVolume |-> 0,
      cachedAtLowering |-> 0,   \* history: cachedVolume when loweringVolume last became true
      seekSince |-> FALSE,      \* history: a seek was dispatched, no event processed since
      ended |-> "none",         \* history: how a worker of this session ended
      purged |-> FALSE,         \* history: removed by purgeOldSessions
      before |-> FALSE,         \* history: tracked when the listener was restarted
      done |-> NoSeek,          \* history: the seek the client carried out to viewOffset
      synced |-> FALSE,         \* history: an event has since reported that position
      age |-> 0,
      media |-> media,
      playQueueID |-> playQueueID,
      customOnly |-> FALSE,
      hasPlayer |-> hasPlayer,
      proxied |-> TRUE ]

\* MediaWrapper.sinceLastUpdate
sinceLastUpdate(w) == w.age

\* MediaWrapper.updateOffset(offset, seeking)
updateOffset(w, offset, seeking) ==
    [w EXCEPT !.viewOffset = offset, !.seeking = seeking, !.age = 0,
              !.seekSince = IF seeking THEN @ ELSE FALSE]

\* the history fields are kept only in the specifications that read them
Keeps(field) == field \in env.history

\* history: the seek that was carried out is forgotten when the position changes and
\* when another seek starts; an event that reports its position unchanged is noted
Forget(w, offset, event) ==
    [w EXCEPT !.done = IF event /\ offset = w.viewOffset THEN @ ELSE NoSeek,
              !.synced = event /\ offset = w.viewOffset /\ w.done.fire]

\* MediaWrapper.updateVolume(volume, previousVolume, lowering)
updateVolume(w, volume, previousVolume, lowering) ==
    [w EXCEPT !.cachedVolume = previousVolume,
              !.loweringVolume = lowering,
              !.cachedAtLowering = IF lowering /\ ~w.loweringVolume
                                      /\ Keeps("cachedAtLowering")
                                   THEN previousVolume ELSE @]

Range(seq) == {seq[i] : i \in DOMAIN seq}

\* the object ids some thread or the registry still refers to
Live(ms, wk, c, sn) ==
    (Range(ms) \cup {x.w : x \in BagToSet(wk)} \cup {c[t] : t \in Threads} \cup Range(sn))
        \ {NoObj}

\* objects nothing refers to any more are gone
Collect(h, live) == [o \in ObjIds |-> IF o \in live THEN h[o] ELSE NoWrapper]

FreeObjs == (1..env.maxWrappers) \ Live(media_sessions, workers, cur, snap)

----------------------------------------------------------------------------
(* The session registry: self.media_sessions *)

\* pasIdentifier in self.media_sessions
InRegistry(ms, pid) == \E i \in DOMAIN ms : wrappers[ms[i]].pid = pid

\* self.media_sessions[pasIdentifier]
Lookup(ms, pid) == ms[CHOOSE i \in DOMAIN ms : wrappers[ms[i]].pid = pid]

\* removeSession: delete the entry keyed by the wrapper's pasIdentifier, if any
removeSession(ms, pid) ==
    LET Other(o) == wrappers[o].pid # pid IN SelectSeq(ms, Other)

\* purgeOldSessions that removes nothing
purgeNothing(ms, machineIdentifier) == ms

\* purgeOldSessions: remove the first session of the same client
purgeOldSessions(ms, machineIdentifier) ==
    LET Same(o) == wrappers[o].clientIdentifier = machineIdentifier
        i == FirstIdx({k \in DOMAIN ms : Same(ms[k])})
    IN  IF i = 0 THEN ms ELSE removeSession(ms, wrappers[ms[i]].pid)

\* self.media_sessions[pasIdentifier] = mediaWrapper
\* (h: the objects, among them the one being stored)
StoreSession(ms, h, o) ==
    IF \E i \in DOMAIN ms : h[ms[i]].pid = h[o].pid
    THEN [i \in DOMAIN ms |-> IF h[ms[i]].pid = h[o].pid THEN o ELSE ms[i]]
    ELSE Append(ms, o)

\* ignoreSession without the cut to IGNORED_CAP
AppendIgnoredUncut(ig, pid) == Append(ig, pid)

\* self.ignored.append(pid); self.ignored = self.ignored[-IGNORED_CAP:]
AppendIgnored(ig, pid) ==
    LET a == Append(ig, pid)
    IN  IF Len(a) > IGNORED_CAP THEN SubSeq(a, Len(a) - IGNORED_CAP + 1, Len(a)) ELSE a

----------------------------------------------------------------------------
(* Dispatch: seekTo / setVolume start a thread *)

SeekWorker(o, target, source) ==
    [kind |-> "seek", w |-> o, arg |-> target, lowering |-> FALSE,
     pc |-> "start", player |-> TRUE, bad |-> FALSE, source |-> source, expected |-> 0,
     sends |-> 0]

\* expected (history): the volume cached when the session was lowered
VolumeWorker(o, volume, lowering, expected) ==
    [kind |-> "volume", w |-> o, arg |-> volume, lowering |-> lowering,
     pc |-> "start", player |-> TRUE, bad |-> FALSE, source |-> "volume",
     expected |-> expected, sends |-> 0]

NoAlert == [pid |-> <<0, "">>, viewOffset |-> 0]

\* Thread(target=...).start() from checkMedia on object o
Dispatch(o, wk) ==
    /\ BagCardinality(workers) < env.maxWorkers
    /\ workers' = workers (+) SetToBag({wk})
    /\ wrappers' = IF wk.kind = "seek" /\ Keeps("seekSince")
                   THEN [wrappers EXCEPT ![o].seekSince = TRUE]
                   ELSE wrappers

NoDispatchNow == UNCHANGED << workers, wrappers >>

----------------------------------------------------------------------------
(* checkMedia, run by the control loop and by addSession (thread t) *)

leftOffsetOf(w) == OrElse(M(w).leftOffset, settings.leftOffset)
rightOffsetOf(w) == OrElse(M(w).rightOffset, settings.rightOffset)

\* where checkMedia returns to: addSession line 451, or the loop's next session
Return(t) ==
    IF t = "evt"
    THEN [pc |-> [pc EXCEPT ![t] = "insert"], cur |-> cur, snap |-> snap]
    ELSE IF snap = <<>>
    THEN [pc |-> [pc EXCEPT ![t] = "iter"], cur |-> [cur EXCEPT ![t] = NoObj],
          snap |-> <<>>]
    ELSE [pc |-> [pc EXCEPT ![t] = "guard"], cur |-> [cur EXCEPT ![t] = Head(snap)],
          snap |-> Tail(snap)]

\* lines 113-114: if mediaWrapper.seeking: return
CM_Guard(t) ==
    /\ pc[t] = "guard"
    /\ IF wrappers[cur[t]].seeking
       THEN LET r == Return(t) IN
            /\ pc' = r.pc /\ cur' = r.cur /\ snap' = r.snap
       ELSE /\ pc' = [pc EXCEPT ![t] = "skip"]
            /\ UNCHANGED << cur, snap >>
    /\ UNCHANGED << settings, env, media_sessions, ignored, alert, workers,
                    clientVol, sent,
                    decided >>
    /\ wrappers' = Collect(wrappers, Live(media_sessions', workers', cur', snap'))

\* checkMedia returning as soon as the skip check has dispatched a seek
AfterSkipReturn(fired) == IF fired THEN "stale" ELSE "volume"

\* where checkMedia goes on after checkMediaSkip, whether it dispatched or not
AfterSkip(fired) == "volume"

\* line 119: self.checkMediaSkip(mediaWrapper, leftOffset, rightOffset)
CM_Skip(t) ==
    /\ pc[t] = "skip"
    /\ LET o == cur[t]
           w == wrappers[o]
           r == checkMediaSkip(w, leftOffsetOf(w), rightOffsetOf(w))
       IN  /\ IF r.fire
              THEN Dispatch(o, SeekWorker(o, r.target, r.source))
              ELSE NoDispatchNow
           /\ pc' = [pc EXCEPT ![t] = AfterSkip(r.fire)]
    /\ UNCHANGED << settings, env, media_sessions, ignored, cur, snap, alert,
                    clientVol, sent,
                    decided >>

\* line 120: checkMediaVolume
CM_Volume(t) ==
    /\ pc[t] = "volume"
    /\ LET o == cur[t]
           w == wrappers[o]
           shouldLower == shouldLowerMediaVolume(w, leftOffsetOf(w), rightOffsetOf(w))
       IN  IF ~w.loweringVolume /\ shouldLower
           THEN Dispatch(o, VolumeWorker(o, settings.volumelow, shouldLower,
                                         w.cachedAtLowering))
           ELSE IF w.loweringVolume /\ ~shouldLower
           THEN Dispatch(o, VolumeWorker(o, w.cachedVolume, shouldLower,
                                         w.cachedAtLowering))
           ELSE NoDispatchNow
    /\ pc' = [pc EXCEPT ![t] = "end"]
    /\ UNCHANGED << settings, env, media_sessions, ignored, cur, snap, alert,
                    clientVol, sent,
                    decided >>

\* lines 122-124: the end-of-playback check
CM_End(t) ==
    /\ pc[t] = "end"
    /\ LET o == cur[t]
           w == wrappers[o]
       IN  IF EndOfPlayback(w)
           THEN Dispatch(o, SeekWorker(o, M(w).duration, "end"))
           ELSE NoDispatchNow
    /\ pc' = [pc EXCEPT ![t] = "stale"]
    /\ UNCHANGED << settings, env, media_sessions, ignored, cur, snap, alert,
                    clientVol, sent,
                    decided >>

\* lines 126-128: the staleness check
CM_Stale(t) ==
    /\ pc[t] = "stale"
    /\ LET w == wrappers[cur[t]]
           r == Return(t)
       IN  IF /\ env.preempt
              /\ sinceLastUpdate(w) > TIMEOUT /\ InRegistry(media_sessions, w.pid)
           THEN /\ pc' = [pc EXCEPT ![t] = "del"]
                /\ UNCHANGED << media_sessions, cur, snap >>
           ELSE /\ media_sessions' = IF sinceLastUpdate(w) > TIMEOUT
                                     THEN removeSession(media_sessions, w.pid)
                                     ELSE media_sessions
                /\ pc' = r.pc /\ cur' = r.cur /\ snap' = r.snap
    /\ UNCHANGED << settings, env, ignored, alert, workers, clientVol, sent,
                    decided >>
    /\ wrappers' = Collect(wrappers, Live(media_sessions', workers', cur', snap'))

\* removeSession line 471 when the thread was preempted after the test of line 470:
\* del self.media_sessions[pasIdentifier] raises KeyError if the entry is gone.
\* Nothing catches it in start() (the loop ends); processAlert catches it (line 342)
CM_Del(t) ==
    /\ pc[t] = "del"
    /\ LET w == wrappers[cur[t]]
           r == Return(t)
       IN  IF InRegistry(media_sessions, w.pid)
           THEN /\ media_sessions' = removeSession(media_sessions, w.pid)
                /\ pc' = r.pc /\ cur' = r.cur /\ snap' = r.snap
           ELSE /\ media_sessions' = media_sessions
                /\ pc' = [pc EXCEPT ![t] = IF t = "loop" THEN "KeyError" ELSE "idle"]
                /\ cur' = [cur EXCEPT ![t] = NoObj]
                /\ snap' = IF t = "loop" THEN << >> ELSE snap
    /\ UNCHANGED << settings, env, ignored, alert, workers, clientVol, sent,
                    decided >>
    /\ wrappers' = Collect(wrappers, Live(media_sessions', workers', cur', snap'))

----------------------------------------------------------------------------
(* The control loop: Skipper.start *)

\* lines 99-103: time.sleep(1), then the next snapshot of the registry
L_Iter ==
    /\ pc["loop"] = "iter"
    /\ pc["evt"] # "down"
    /\ media_sessions # <<>>
    /\ pc' = [pc EXCEPT !["loop"] = "guard"]
    /\ cur' = [cur EXCEPT !["loop"] = Head(media_sessions)]
    /\ snap' = Tail(media_sessions)
    /\ UNCHANGED << settings, env, wrappers, media_sessions, ignored, alert, workers,
                    clientVol, sent,
                    decided >>

\* the listener's thread ends (the connection is lost) between two notifications
E_Disconnect ==
    /\ pc["evt"] = "idle"
    /\ pc' = [pc EXCEPT !["evt"] = "down"]
    /\ UNCHANGED << settings, env, wrappers, media_sessions, ignored, cur, snap, alert,
                    workers, clientVol, sent, decided >>

\* lines 99 and 109-110, 96-98: listener.is_alive() is false, self.reconnect is set:
\* start() calls itself, which creates and starts a new listener
L_Restart ==
    /\ pc["loop"] = "iter"
    /\ pc["evt"] = "down"
    /\ pc' = [pc EXCEPT !["evt"] = "idle"]
    /\ wrappers' = [o \in ObjIds |->
                      IF Keeps("before") /\ o \in Range(media_sessions)
                      THEN [wrappers[o] EXCEPT !.before = TRUE] ELSE wrappers[o]]
    /\ UNCHANGED << settings, env, media_sessions, ignored, cur, snap, alert,
                    workers, clientVol, sent, decided >>

\* time passes: every MediaWrapper's sinceLastUpdate grows
PassTime ==
    /\ \E o \in ObjIds : wrappers[o] # NoWrapper /\ wrappers[o].age <= TIMEOUT
    /\ wrappers' = [o \in ObjIds |->
                      IF wrappers[o] = NoWrapper THEN NoWrapper
                      ELSE [wrappers[o] EXCEPT !.age = Min(@ + TimeStep, TIMEOUT + 1)]]
    /\ UNCHANGED << settings, env, media_sessions, ignored, pc, cur, snap, alert,
                    workers, clientVol, sent,
                    decided >>

----------------------------------------------------------------------------
(* The event path: processAlert, addSession, ignoreSession *)

\* processAlert that does not consult the ignore list
IsIgnoredNever(ig, pid) == FALSE

\* processAlert line 319: pasIdentifier in self.ignored
IsIgnored(ig, pid) == pid \in Range(ig)

\* ignoreSession: for every tracked session purgeOldSessions reads
\* mediaWrapper.player.machineIdentifier, which raises for a session without player
\* (caught by processAlert, nothing is appended)
ignoreSession(w) ==
    IF ~w.hasPlayer /\ media_sessions # << >>
    THEN UNCHANGED << media_sessions, ignored >>
    ELSE /\ media_sessions' = purgeOldSessions(media_sessions, w.clientIdentifier)
         /\ ignored' = AppendIgnored(ignored, w.pid)

\* processAlert lines 312-319 and 336-337 for a 'playing' notification: the session
\* is ignored, not found on the server, or tracked already
\*   found:   getMediaSession returned a session whose location is 'lan'
E_Alert(sessionKey, clientIdentifier, viewOffset, found) ==
    /\ pc["evt"] = "idle"
    /\ LET pid == getSessionClientIdentifier(sessionKey, clientIdentifier)
       IN  /\ IsIgnored(ignored, pid) \/ ~found \/ InRegistry(media_sessions, pid)
           /\ IF IsIgnored(ignored, pid) \/ ~found
              THEN UNCHANGED << pc, alert >>
              ELSE /\ pc' = [pc EXCEPT !["evt"] = "update"]
                   /\ alert' = [pid |-> pid, viewOffset |-> viewOffset]
    /\ UNCHANGED << settings, env, wrappers, media_sessions, ignored, cur, snap,
                    workers, clientVol, sent,
                    decided >>

\* the heap after purgeOldSessions has turned the registry ms into ms2
Purged(h, ms, ms2) ==
    [x \in DOMAIN h |->
        IF Keeps("purged") /\ x \in Range(ms) \ Range(ms2)
        THEN [h[x] EXCEPT !.purged = TRUE] ELSE h[x]]

\* what processAlert found out about a new session
Decision(pid, media, hasPlayer, version, blocked, add) ==
    [pid |-> pid, media |-> media, hasPlayer |-> hasPlayer, version |-> version,
     blocked |-> blocked, add |-> add]

NoDecision ==
    Decision(<<0, "">>, MediaId(SKIP, "none", "none", "none", "none", "none"),
             FALSE, <<0, 0, 0>>, FALSE, FALSE)

\* processAlert lines 320-335 for a session that is not tracked yet, up to the call
\* of checkMedia in addSession (line 450)
\*   blocked: blockedClientUser(wrapper);  add: shouldAdd(wrapper)
E_New(sessionKey, clientIdentifier, viewOffset, playQueueID, media, hasPlayer, version, blocked, add) ==
    /\ pc["evt"] = "idle"
    /\ LET pid == getSessionClientIdentifier(sessionKey, clientIdentifier)
           o == CHOOSE x \in FreeObjs : \A y \in FreeObjs : x <= y
           w0 == MediaWrapper(pid, viewOffset, media, playQueueID, hasPlayer)
           w == [w0 EXCEPT !.customOnly = ~add /\ Len(MediaOf(media).customMarkers) > 0]
       IN  /\ ~IsIgnored(ignored, pid)
           /\ ~InRegistry(media_sessions, pid)
           /\ FreeObjs # {}
           /\ IF blocked
              THEN UNCHANGED << media_sessions, ignored, pc, cur >>
              ELSE IF add \/ Len(MediaOf(media).customMarkers) > 0
              THEN IF hasPlayer /\ validPlayer(Product(clientIdentifier), version)
                   THEN /\ media_sessions' =
                               purgeOldSessions(media_sessions, w.clientIdentifier)
                        /\ pc' = [pc EXCEPT !["evt"] = "guard"]
                        /\ cur' = [cur EXCEPT !["evt"] = o]
                        /\ ignored' = ignored
                   ELSE /\ ignoreSession(w)
                        /\ UNCHANGED << pc, cur >>
              ELSE /\ ignoreSession(w)
                   /\ UNCHANGED << pc, cur >>
           /\ wrappers' = Collect(Purged([wrappers EXCEPT ![o] = w],
                                         media_sessions, media_sessions'),
                                  Live(media_sessions', workers, cur', snap))
           /\ decided' = IF Keeps("decided")
                         THEN Decision(pid, media, hasPlayer, version, blocked, add)
                         ELSE decided
    /\ UNCHANGED << settings, env, snap, alert, workers, clientVol, sent >>

\* processAlert line 337: self.media_sessions[pasIdentifier].updateOffset(...,
\* seeking=False); a KeyError (the session was removed meanwhile) is caught at line 342
E_Update ==
    /\ pc["evt"] = "update"
    /\ IF InRegistry(media_sessions, alert.pid)
       THEN wrappers' = [wrappers EXCEPT ![Lookup(media_sessions, alert.pid)] =
                            updateOffset(Forget(@, alert.viewOffset, TRUE),
                                         alert.viewOffset, FALSE)]
       ELSE UNCHANGED wrappers
    /\ pc' = [pc EXCEPT !["evt"] = "idle"]
    /\ alert' = NoAlert
    /\ UNCHANGED << settings, env, media_sessions, ignored, cur, snap, workers,
                    clientVol, sent,
                    decided >>

\* addSession line 451: self.media_sessions[mediaWrapper.pasIdentifier] = mediaWrapper
E_Insert ==
    /\ pc["evt"] = "insert"
    /\ media_sessions' = StoreSession(media_sessions, wrappers, cur["evt"])
    /\ pc' = [pc EXCEPT !["evt"] = "idle"]
    /\ cur' = [cur EXCEPT !["evt"] = NoObj]
    /\ UNCHANGED << settings, env, ignored, snap, alert, workers, clientVol, sent,
                    decided >>
    /\ wrappers' = Collect(wrappers, Live(media_sessions', workers', cur', snap'))

----------------------------------------------------------------------------
(* The workers: _seekTo / seekPlayerTo and _setVolume / setPlayerVolume *)

Replace(wk, wk2) == (workers (-) SetToBag({wk})) (+) SetToBag({wk2})
Finished(wk) == workers (-) SetToBag({wk})

\* sends (history): the commands of the worker that the client has rejected, counted
\* up to 3 (any other reply ends the worker)
Sent(wk) == [wk EXCEPT !.sends = IF Keeps("sends") THEN Min(@ + 1, 3) ELSE @]

\* recoverPlayer that does not look at player._proxyThroughServer
recoverPlayerAgain(w) == Product(w.clientIdentifier) \notin PROXY_ONLY

\* recoverPlayer: the client handle to retry on, FALSE for None
recoverPlayer(w) == Product(w.clientIdentifier) \notin PROXY_ONLY /\ w.proxied

\* the target seekPlayerTo sends (lines 214-216)
ClampTarget(targetOffset, duration) ==
    IF duration # 0 /\ targetOffset > duration THEN duration ELSE targetOffset

\* seekPlayerTo advancing to the next item whatever the play queue holds
SeekCommandNoQueue(w, targetOffset, queue) ==
    IF settings.skipnext /\ targetOffset >= (M(w).duration - settings.durationOffset)
    THEN "skipNext"
    ELSE "seekTo"

\* the command of seekPlayerTo lines 222-241;  queue: the reply of PlayQueue.get
\* ("fail": it raised, "last": the last item is this media, "more": it is not)
SeekCommand(w, targetOffset, queue) ==
    IF settings.skipnext /\ targetOffset >= (M(w).duration - settings.durationOffset)
    THEN IF w.playQueueID # 0 /\ queue = "last" THEN "seekTo" ELSE "skipNext"
    ELSE "seekTo"

\* the worker returns: seekPlayerTo / setPlayerVolume returned True or False
W_Return(wk) ==
    /\ workers' = Finished(wk)
    /\ media_sessions' = media_sessions
    /\ wrappers' = Collect([wrappers EXCEPT ![wk.w].ended =
                                IF ~wk.player /\ wk.bad /\ Keeps("ended")
                                THEN "unrecovered" ELSE @],
                           Live(media_sessions', workers', cur, snap))

\* seekPlayerTo returns True (lines 233-234, 240-241);  seeked: player.seekTo was
\* called and the client carried it out
W_Done(wk, seeked) ==
    /\ workers' = Finished(wk)
    /\ media_sessions' = media_sessions
    /\ wrappers' = Collect([wrappers EXCEPT ![wk.w].done =
                                IF seeked /\ Keeps("done")
                                THEN Seek(wk.arg, wk.source) ELSE @],
                           Live(media_sessions', workers', cur, snap))

\* the except clauses of _seekTo / _setVolume: self.removeSession(mediaWrapper)
W_Except(wk) ==
    /\ workers' = Finished(wk)
    /\ media_sessions' = removeSession(media_sessions, wrappers[wk.w].pid)
    /\ wrappers' = Collect([wrappers EXCEPT ![wk.w].ended =
                                IF Keeps("ended") THEN "failed" ELSE @],
                           Live(media_sessions', workers', cur, snap))

\* the except BadRequest clause: retry on recoverPlayer(player)
W_Recover(wk) ==
    LET rec == recoverPlayer(wrappers[wk.w])
    IN  /\ workers' = Replace(wk, [Sent(wk) EXCEPT !.pc = "start", !.player = rec,
                                                   !.bad = TRUE])
        /\ wrappers' = [wrappers EXCEPT ![wk.w].proxied = IF rec THEN FALSE ELSE @]
        /\ UNCHANGED media_sessions

\* seekPlayerTo lines 211-221
W_SeekStart(wk) ==
    /\ wk.kind = "seek" /\ wk.pc = "start"
    /\ IF ~wk.player
       THEN W_Return(wk)
       ELSE LET w == wrappers[wk.w]
                target == ClampTarget(wk.arg, M(w).duration)
            IN  /\ workers' = Replace(wk, [wk EXCEPT !.pc = "send", !.arg = target])
                /\ wrappers' = [wrappers EXCEPT ![wk.w] =
                                    updateOffset(Forget(@, target, FALSE), target, TRUE)]
                /\ UNCHANGED media_sessions
    /\ UNCHANGED << settings, env, ignored, pc, cur, snap, alert, clientVol, sent,
                    decided >>

\* PlayQueue.get is called (lines 222-225)
AsksQueue(w, targetOffset) ==
    /\ settings.skipnext
    /\ targetOffset >= (M(w).duration - settings.durationOffset)
    /\ w.playQueueID # 0

\* history: the command a client received, for which target, of which play queue,
\* with which reply of PlayQueue.get
NoCommand ==
    [cmd |-> "none", arg |-> 0, duration |-> 0, playQueueID |-> 0, queue |-> "none"]

Command(w, targetOffset, queue) ==
    [cmd |-> SeekCommand(w, targetOffset, queue), arg |-> targetOffset,
     duration |-> M(w).duration,
     playQueueID |-> w.playQueueID,
     queue |-> IF AsksQueue(w, targetOffset) THEN queue ELSE "none"]

\* seekPlayerTo lines 222-248 and the except clauses of _seekTo;  queue "empty": the
\* play queue has no items, pq.items[-1] raises IndexError (line 232)
W_SeekSend(wk, queue, result) ==
    /\ wk.kind = "seek" /\ wk.pc = "send"
    /\ queue \in {"fail", "last", "more", "empty"}
    /\ LET w == wrappers[wk.w]
       IN  IF AsksQueue(w, wk.arg) /\ queue = "empty"
           THEN W_Except(wk) /\ sent' = sent
           ELSE /\ CASE result \in {"ok", "parse"} ->
                            W_Done(wk, result = "ok"
                                       /\ SeekCommand(w, wk.arg, queue) = "seekTo")
                     [] result = "bad" -> W_Recover(wk)
                     [] OTHER -> W_Except(wk)
                /\ sent' = IF Keeps("sent")
                           THEN [sent EXCEPT ![w.clientIdentifier] =
                                    Command(w, wk.arg, queue)]
                           ELSE sent
    /\ UNCHANGED << settings, env, ignored, pc, cur, snap, alert, clientVol,
                    decided >>

\* setPlayerVolume lines 267-277;  timeline: player.timeline.volume is available
W_VolStart(wk, timeline) ==
    /\ wk.kind = "volume" /\ wk.pc = "start"
    /\ IF ~wk.player
       THEN W_Return(wk)
       ELSE LET w == wrappers[wk.w]
                previousVolume == IF timeline THEN clientVol[w.clientIdentifier]
                                  ELSE IF wk.lowering THEN settings.volumehigh
                                  ELSE settings.volumelow
            IN  /\ workers' = Replace(wk, [wk EXCEPT !.pc = "send"])
                /\ wrappers' = [wrappers EXCEPT ![wk.w] =
                                    updateVolume(@, wk.arg, previousVolume, wk.lowering)]
                /\ UNCHANGED media_sessions
    /\ UNCHANGED << settings, env, ignored, pc, cur, snap, alert, clientVol, sent,
                    decided >>

\* setPlayerVolume lines 278-285 and the except clauses of _setVolume
W_VolSend(wk, result) ==
    /\ wk.kind = "volume" /\ wk.pc = "send"
    /\ clientVol' = IF result \in {"ok", "parse"}
                    THEN [clientVol EXCEPT ![wrappers[wk.w].clientIdentifier] = wk.arg]
                    ELSE clientVol
    /\ CASE result \in {"ok", "parse"} -> W_Return(wk)
         [] result = "bad" -> W_Recover(wk)
         [] OTHER -> W_Except(wk)
    /\ UNCHANGED << settings, env, ignored, pc, cur, snap, alert, sent,
                    decided >>

----------------------------------------------------------------------------
(* The specification *)

\* content of the main specification: skip mode, a custom skip range and a custom
\* volume range at the end, a server marker at the start
MediaA == MediaId(SKIP, "end", "none", "intro", "none", "none")

\* content of the volume specification: volume mode, one custom volume range
MediaB == MediaId(VOLUME, "low", "none", "none", "none", "none")

\* content of the end-of-playback specification: ten minutes without any range
MediaC == [MediaId(SKIP, "none", "none", "none", "none", "none") EXCEPT
              !.length = "feature"]

\* what the lookups and the admission rules say about an event:
\*   found:   getMediaSession returned a session whose location is 'lan'
\*   blocked: blockedClientUser(wrapper);  add: shouldAdd(wrapper)
Admit == [found |-> TRUE, hasPlayer |-> TRUE, version |-> <<1, 46, 0>>,
          blocked |-> FALSE, add |-> TRUE]
Lost == [Admit EXCEPT !.found = FALSE]
Blocked == [Admit EXCEPT !.blocked = TRUE]
Rejected == [Admit EXCEPT !.add = FALSE]
NoPlayer == [Admit EXCEPT !.hasPlayer = FALSE]
Broken == [Admit EXCEPT !.version = <<1, 46, 1>>]

MainSettings ==
    [leftOffset |-> 0, rightOffset |-> 0, durationOffset |-> 1, skipnext |-> TRUE,
     skiplastchapter |-> 0, volumelow |-> 1, volumehigh |-> 3,
     allowedSkipNext |-> {}, blockedSkipNext |-> {},
     types |-> {"movie", "episode"}, ignoredlibraries |-> {},
     skipE01 |-> ALWAYS, skipS01E01 |-> ALWAYS, skipunwatched |-> TRUE,
     allowedKeys |-> {}, blockedKeys |-> {},
     allowedUsers |-> {}, blockedUsers |-> {},
     allowedClients |-> {}, blockedClients |-> {}]

\* one session of one client, one worker, a client that always answers
BaseEnv ==
    [library |-> "one", offsets |-> {0, 5}, queues |-> {0},
     keys |-> {1}, clients |-> {"c1"},
     results |-> {"ok"}, queueReplies |-> {"last"}, timelines |-> {TRUE},
     admissions |-> {Admit, Lost},
     history |-> {}, preempt |-> FALSE,
     maxWrappers |-> MinWrappers, maxWorkers |-> MinWorkers]

\* the races of checkMedia with the workers
MainEnv == [BaseEnv EXCEPT !.history = {"seekSince"}, !.maxWorkers = MaxWorkers]

\* clients that reject commands or do not answer
FailEnv == [BaseEnv EXCEPT !.history = {"ended"}, !.results = Results,
                           !.timelines = BOOLEAN]

\* volume workers running side by side
VolumeEnv == [BaseEnv EXCEPT !.history = {"cachedAtLowering"}, !.maxWorkers = MaxWorkers,
                             !.library = "volume", !.offsets = {0, 2}]

\* two clients with two session keys each
RegistryEnv ==
    [BaseEnv EXCEPT !.history = {"purged"},
                    !.keys = SessionKeys, !.clients = Clients, !.offsets = {5},
                    !.results = {"ok", "timeout"},
                    !.admissions = {Admit, Blocked},
                    !.maxWrappers = MaxWrappers]

\* every combination of the ranges above, played from every position
MatchLibrary ==
    { MediaId(mode, cu, ch, ma, la, off) :
        mode \in {SKIP, VOLUME}, cu \in {"none", "two", "low"},
        ch \in {"none", "mid"}, ma \in {"none", "long"},
        la \in {"none", "late"}, off \in {"none", "own"} }

\* the media items of the server's library
\* media without ranges, with every combination of the attributes shouldAdd reads
ContentLibrary ==
    { [MediaId(SKIP, "none", "none", "none", "none", "none") EXCEPT
          !.content = Content(type, library, episode, season, watched)] :
        type \in {"episode", "clip"}, library \in {"TV Shows", "Kids"},
        episode \in 0..2, season \in 0..2, watched \in BOOLEAN }

\* watched and unwatched media with a server marker, with and without custom ranges
CustomLibrary ==
    { [MediaId(SKIP, customs, "none", "intro", "none", "none") EXCEPT
          !.content = Content("episode", "TV Shows", 2, 2, watched)] :
        customs \in {"none", "end"}, watched \in BOOLEAN }

LibraryOf(name) ==
    CASE name = "all" -> MatchLibrary
      [] name = "contents" -> ContentLibrary
      [] name = "custom" -> CustomLibrary
      [] name = "volume" -> {MediaB}
      [] name = "skips" -> {m \in MatchLibrary : m.mode = SKIP /\ m.customs # "low"
                                                  /\ m.lastchapter = "none"}
      [] name = "feature" -> {MediaC}
      [] OTHER -> {MediaA}

MatchEnv == [BaseEnv EXCEPT !.library = "all", !.offsets = 0..6,
                            !.admissions = {Admit}]

MatchSettings ==
    { [MainSettings EXCEPT !.leftOffset = l, !.rightOffset = r, !.skiplastchapter = c] :
        l \in {0, 1}, r \in {-4, 4}, c \in {0, 40, 60} }

\* skip-to-next switched on and off, allowed and blocked by title and by identifier
NextSettings ==
    { [MainSettings EXCEPT !.skipnext = n, !.allowedSkipNext = a, !.blockedSkipNext = b,
                           !.durationOffset = d] :
        n \in BOOLEAN, a \in {{}, {"c1"}, {"Desktop"}}, b \in {{}, {"Living Room"}},
        d \in {1, 2} }

NextEnv == [BaseEnv EXCEPT !.offsets = {3, 4, 5}, !.admissions = {Admit}]

\* the end of a feature: durationOffset 5000 ms, positions around duration - 5000,
\* sessions without play queue (id 0) and with one, every reply of PlayQueue.get
EndSettings == [MainSettings EXCEPT !.durationOffset = 5000]

EndEnv == [BaseEnv EXCEPT !.library = "feature", !.offsets = {590000, 595000},
                          !.queues = {0, 1},
                          !.queueReplies = {"last", "more", "fail", "empty"},
                          !.admissions = {Admit}, !.history = {"sent"}]

\* seeks to the end of the content and before it, with and without play queue
AdvanceEnv == [NextEnv EXCEPT !.queues = {0, 1},
                              !.queueReplies = {"last", "more", "fail", "empty"},
                              !.results = {"ok", "bad"}, !.history = {"sent"}]

\* the policies of shouldAdd
AdmitSettings ==
    { [MainSettings EXCEPT !.ignoredlibraries = il, !.skipE01 = e, !.skipS01E01 = s,
                           !.allowedKeys = ak, !.blockedKeys = bk,
                           !.skipunwatched = u] :
        il \in {{}, {"kids"}}, e \in {ALWAYS, NEVER, WATCHED},
        s \in {ALWAYS, NEVER, WATCHED}, ak \in {{}, {10}, {20}, {30}, {40}},
        bk \in {{}, {20}}, u \in BOOLEAN }

\* sessions at the end of every media item of ContentLibrary
AdmitEnv == [BaseEnv EXCEPT !.library = "contents", !.offsets = {5},
                            !.admissions = {Admit}, !.history = {"decided"}]

\* the user and client lists of blockedClientUser, and unwatched media rejected or not
CustomSettings ==
    { [MainSettings EXCEPT !.blockedUsers = bu, !.allowedUsers = au,
                           !.allowedClients = ac, !.blockedClients = bc,
                           !.skipunwatched = u] :
        bu \in {{}, {"alice"}}, au \in {{}, {"carol"}},
        ac \in {{}, {"Desktop", "c1"}}, bc \in {{}, {"c2"}}, u \in BOOLEAN }

\* sessions of both clients, each with the versions around the broken one
CustomEnv == [BaseEnv EXCEPT !.library = "custom", !.offsets = {0},
                             !.clients = Clients,
                             !.admissions = {Lost, NoPlayer, Broken} \cup
                                 {[Admit EXCEPT !.version = v] : v \in Versions},
                             !.history = {"decided"}]

\* a connection that can be lost
RestartEnv == [BaseEnv EXCEPT !.history = {"before"}]

\* sessions of 'Plex for Windows': admitted, rejected by shouldAdd with or without
\* custom range, or admitted with a broken client version
IgnoreEnv == [BaseEnv EXCEPT !.library = "custom", !.offsets = {0},
                             !.clients = {"c2"},
                             !.admissions = {Admit, Rejected, Broken, Lost}]

\* threads preempted inside removeSession, clients that do not answer
RaceEnv == [BaseEnv EXCEPT !.preempt = TRUE, !.results = {"ok", "timeout"}]

\* both kinds of client (direct connection possible or proxy only), commands that
\* are accepted, rejected (BadRequest) or unanswered
RecoverEnv == [BaseEnv EXCEPT !.clients = Clients, !.results = {"ok", "bad", "timeout"},
                              !.history = {"sends"}, !.maxWorkers = MaxWorkers]

\* sessions in skip mode with custom skip ranges, chapters and server markers, whose
\* events report every position
ProgressEnv == [BaseEnv EXCEPT !.library = "skips", !.offsets = 0..4,
                               !.admissions = {Admit}, !.history = {"done"}]

InitWith(s, e) ==
    /\ settings = s
    /\ env = e
    /\ wrappers = [o \in ObjIds |-> NoWrapper]
    /\ media_sessions = << >>
    /\ ignored = << >>
    /\ pc = [t \in Threads |-> IF t = "loop" THEN "iter" ELSE "idle"]
    /\ cur = [t \in Threads |-> NoObj]
    /\ snap = << >>
    /\ alert = NoAlert
    /\ workers = EmptyBag
    /\ clientVol = [c \in Clients |-> 2]
    /\ sent = [c \in Clients |-> NoCommand]
    /\ decided = NoDecision

Init == InitWith(MainSettings, MainEnv)

InitFail == InitWith(MainSettings, FailEnv)

InitVolume == InitWith(MainSettings, VolumeEnv)

InitRegistry == InitWith(MainSettings, RegistryEnv)

InitMatch == \E s \in MatchSettings : InitWith(s, MatchEnv)

InitEnd == InitWith(EndSettings, EndEnv)

InitAdvance ==
    \E s \in NextSettings :
        /\ s.durationOffset = 1 /\ s.allowedSkipNext # {"c1"}
        /\ InitWith(s, AdvanceEnv)

InitAdmit == \E s \in AdmitSettings : InitWith(s, AdmitEnv)

InitCustom == \E s \in CustomSettings : InitWith(s, CustomEnv)

InitRestart == InitWith(MainSettings, RestartEnv)

InitIgnore == InitWith(MainSettings, IgnoreEnv)

InitRace == InitWith(MainSettings, RaceEnv)

InitRecover == InitWith(MainSettings, RecoverEnv)

InitProgress ==
    \E s \in MatchSettings : s.skiplastchapter = 0 /\ InitWith(s, ProgressEnv)

InitNext == \E s \in NextSettings : InitWith(s, NextEnv)

Event ==
    \E k \in env.keys, c \in env.clients, p \in env.offsets, a \in env.admissions :
        \/ E_Alert(k, c, p, a.found)
        \/ /\ a.found
           /\ \E q \in env.queues, m \in LibraryOf(env.library) :
                 E_New(k, c, p, q, m, a.hasPlayer, a.version, a.blocked, a.add)

\* processAlert with the admission decided by blockedClientUser and shouldAdd
EventAdmit ==
    \E k \in env.keys, c \in env.clients, p \in env.offsets, a \in env.admissions :
        \/ E_Alert(k, c, p, a.found)
        \/ /\ a.found
           /\ \E q \in env.queues, m \in LibraryOf(env.library) :
                 LET w == MediaWrapper(getSessionClientIdentifier(k, c), p, m, q,
                                       a.hasPlayer)
                 IN  E_New(k, c, p, q, m, a.hasPlayer, a.version,
                           blockedClientUser(w), shouldAdd(w))

\* the highest session key seen so far
LastKey ==
    LET keys == {0} \cup {ignored[i][1] : i \in DOMAIN ignored}
                    \cup {wrappers[o].pid[1] : o \in ObjIds}
    IN  CHOOSE k \in keys : \A j \in keys : j <= k

\* processAlert for the sessions of a server that numbers its sessions 1, 2, ...:
\* a notification is about the latest session or about a new one
EventInOrder ==
    \E k \in {LastKey, LastKey + 1} \cap 1..MaxSessionKey :
    \E c \in env.clients, p \in env.offsets, a \in env.admissions :
        \/ E_Alert(k, c, p, a.found)
        \/ /\ a.found
           /\ \E q \in env.queues, m \in LibraryOf(env.library) :
                 E_New(k, c, p, q, m, a.hasPlayer, a.version, a.blocked, a.add)

\* processAlert for the sessions of a server that numbers its sessions, the first of
\* which goes on playing: a notification is about the first session, about the latest
\* one or about a new one
EventReturning ==
    \E k \in {1, LastKey, LastKey + 1} \cap 1..MaxSessionKey :
    \E c \in env.clients, p \in env.offsets, a \in env.admissions :
        \/ E_Alert(k, c, p, a.found)
        \/ /\ a.found
           /\ \E q \in env.queues, m \in LibraryOf(env.library) :
                 E_New(k, c, p, q, m, a.hasPlayer, a.version, a.blocked, a.add)

CheckMedia == \E t \in Threads : CM_Guard(t) \/ CM_Skip(t) \/ CM_Volume(t)
                                   \/ CM_End(t) \/ CM_Stale(t)

Worker ==
    \E wk \in BagToSet(workers) :
        \/ W_SeekStart(wk)
        \/ \E q \in env.queueReplies, r \in env.results : W_SeekSend(wk, q, r)
        \/ \E tl \in env.timelines : W_VolStart(wk, tl)
        \/ \E r \in env.results : W_VolSend(wk, r)

Next ==
    \/ L_Iter
    \/ CheckMedia
    \/ PassTime
    \/ Event
    \/ E_Update
    \/ E_Insert
    \/ Worker

Spec == Init /\ [][Next]_vars

SpecFail == InitFail /\ [][Next]_vars

SpecVolume == InitVolume /\ [][Next]_vars

SpecRegistry == InitRegistry /\ [][Next]_vars

\* checkMedia on a new session (addSession) and the workers it starts
NextMatch ==
    \/ Event
    \/ CheckMedia
    \/ E_Insert
    \/ Worker

SpecMatch == InitMatch /\ [][NextMatch]_vars

SpecNext == InitNext /\ [][Next]_vars

SpecEnd == InitEnd /\ [][Next]_vars

SpecAdvance == InitAdvance /\ [][Next]_vars

\* the program with threads preempted inside removeSession
NextRace ==
    \/ Next
    \/ \E t \in Threads : CM_Del(t)

SpecRace == InitRace /\ [][NextRace]_vars

\* the program with clients that reject commands
SpecRecover == InitRecover /\ [][Next]_vars

\* seeks of every kind of range, followed by events
SpecProgress == InitProgress /\ [][Next]_vars

\* the program with a listener that disconnects
NextRestart ==
    \/ Next
    \/ E_Disconnect
    \/ L_Restart

SpecRestart == InitRestart /\ [][NextRestart]_vars

\* the event path of a server that numbers its sessions, and the workers it starts
NextIgnore ==
    \/ EventInOrder
    \/ CheckMedia
    \/ E_Update
    \/ E_Insert
    \/ Worker

SpecIgnore == InitIgnore /\ [][NextIgnore]_vars

\* the program on a server whose first session goes on playing
NextReturn ==
    \/ L_Iter
    \/ CheckMedia
    \/ PassTime
    \/ EventReturning
    \/ E_Update
    \/ E_Insert
    \/ Worker

\* one media item; sessions that are admitted, have a broken client version or no
\* player, or are not found; clients that answer or time out
SpecReturn ==
    /\ InitWith(MainSettings,
                [IgnoreEnv EXCEPT !.library = "one", !.results = {"ok", "timeout"},
                                  !.admissions = {Admit, Broken, NoPlayer, Lost}])
    /\ [][NextReturn]_vars

\* the event path with its admission rules, and the workers it starts
NextAdmit ==
    \/ EventAdmit
    \/ CheckMedia
    \/ E_Update
    \/ E_Insert
    \/ Worker

SpecAdmit == InitAdmit /\ [][NextAdmit]_vars

SpecCustom == InitCustom /\ [][NextAdmit]_vars

----------------------------------------------------------------------------
(* Properties *)

\* thread t returns from checkMediaSkip / checkMediaVolume / the end-of-playback
\* check in this step and has started a worker in it
Dispatches(t, steps) ==
    /\ pc[t] \in steps
    /\ pc'[t] # pc[t]
    /\ BagCardinality(workers') > BagCardinality(workers)

\* the worker started in this step
Started == CHOOSE wk \in BagToSet(workers') : CopiesIn(wk, workers') > CopiesIn(wk, workers)

\* worker wk takes a step
Steps(wk) == CopiesIn(wk, workers') < CopiesIn(wk, workers)

Tracked == Range(media_sessions)

\* C1: whenever checkMedia dispatches seekTo or setVolume for a session, the
\* session's seeking flag is false at the moment of the dispatch.
C1_NoDispatchWhileSeeking ==
    [][\A t \in Threads :
          Dispatches(t, {"skip", "volume", "end"}) => ~wrappers[cur[t]].seeking]_vars

\* C2: once a seek has been dispatched for a session, no second seek is dispatched
\* for it until an inbound event for the session has been processed.
C2_OneSeekPerEvent ==
    [][\A t \in Threads :
          Dispatches(t, {"skip", "end"}) => ~wrappers[cur[t]].seekSince]_vars

\* C3: a session whose worker ended after a BadRequest without a usable client (no
\* recovered client, or the re-issued command rejected again) is not in the registry.
C3_UnrecoveredEvicted ==
    \A o \in Tracked : wrappers[o].ended # "unrecovered"

\* C4: a session whose worker ended with a timeout or another exception is not in
\* the registry, until a later event creates the session anew.
C4_FailedEvicted ==
    \A o \in Tracked : wrappers[o].ended # "failed"

\* the control loop returns from checkMedia in this step
LoopReturns ==
    \/ pc["loop"] = "stale" /\ pc'["loop"] # "stale"
    \/ pc["loop"] = "guard" /\ pc'["loop"] = "iter"
    \/ pc["loop"] = "guard" /\ pc'["loop"] = "guard" /\ snap' # snap

\* C5: a tracked session without update for longer than TIMEOUT is removed from the
\* registry by the control loop's tick on it, whether it is seeking or not.
C5_StaleEvicted ==
    [][(/\ LoopReturns
        /\ cur["loop"] \in Tracked
        /\ sinceLastUpdate(wrappers[cur["loop"]]) > TIMEOUT)
       => ~InRegistry(media_sessions', wrappers[cur["loop"]].pid)]_vars

\* C6: the volume a restoring command sends equals the volume cached when the
\* session was lowered; a lowering command is dispatched only when loweringVolume
\* is false and shouldLowerMediaVolume is true, a restoring command only when
\* loweringVolume is true and shouldLowerMediaVolume is false.
C6_RestoreCachedVolume ==
    [][/\ \A wk \in BagToSet(workers) :
             (wk.kind = "volume" /\ wk.pc = "send" /\ ~wk.lowering /\ Steps(wk))
                 => wk.arg = wk.expected
       /\ \A t \in Threads :
             Dispatches(t, {"volume"}) =>
                 LET w == wrappers[cur[t]]
                     sl == shouldLowerMediaVolume(w, leftOffsetOf(w), rightOffsetOf(w))
                 IN  IF Started.lowering THEN ~w.loweringVolume /\ sl
                                         ELSE w.loweringVolume /\ ~sl]_vars

\* the seeks the skip check may dispatch at the position of w: those of the first
\* source that has a range around the position, in the order custom skip range,
\* last chapter, chapter, server marker, the last three in skip mode only
SkipTargets(w) ==
    LET p == w.viewOffset
        m == M(w)
        To(t, src) == [target |-> t, source |-> src]
        custom == { To(r.end, "custom") :
                      r \in { x \in Range(m.customMarkers) :
                                x.mode = SKIP /\ x.start <= p /\ p <= x.end } }
        last == IF /\ settings.skiplastchapter # 0
                   /\ m.lastchapter # NoRange
                   /\ m.lastchapter.start * 100 > settings.skiplastchapter * m.duration
                   /\ m.lastchapter.start <= p /\ p <= m.lastchapter.end
                THEN {To(m.duration, "lastchapter")} ELSE {}
        chapter == { To(r.end, "chapter") :
                       r \in { x \in Range(m.chapters) : x.start <= p /\ p <= x.end } }
        marker == { To(r.end + rightOffsetOf(w), "marker") :
                      r \in { x \in Range(m.markers) :
                                x.start + leftOffsetOf(w) <= p /\ p <= x.end } }
    IN  IF custom # {} THEN custom
        ELSE IF m.mode # SKIP THEN {}
        ELSE IF last # {} THEN last
        ELSE IF chapter # {} THEN chapter
        ELSE marker

\* C7: the skip check dispatches at most one seek, that of the first matching source
\* in the order custom skip range (whatever the mode), then in skip mode only: last
\* chapter (to the duration), chapter (to its end), server marker (to its end plus
\* rightOffset); nothing when no source matches.
C7_SkipPrecedence ==
    [][\A t \in Threads :
          (pc[t] = "skip" /\ pc'[t] # "skip") =>
              LET T == SkipTargets(wrappers[cur[t]])
              IN  IF T = {} THEN workers' = workers
                  ELSE \E x \in T :
                         workers' = workers (+)
                                    SetToBag({SeekWorker(cur[t], x.target, x.source)})]_vars

\* the skip check has just dispatched the seek of a chapter at a position that also
\* lies in a server marker and in a custom volume range
C7_Witness ==
    \E t \in Threads :
        /\ pc[t] = "volume"
        /\ \E wk \in BagToSet(workers) :
              wk.w = cur[t] /\ wk.source = "chapter" /\ wk.pc = "start"
        /\ LET w == wrappers[cur[t]]
           IN  /\ \E i \in DOMAIN M(w).markers :
                     /\ M(w).markers[i].start + leftOffsetOf(w) <= w.viewOffset
                     /\ w.viewOffset <= M(w).markers[i].end
               /\ \E i \in DOMAIN M(w).customMarkers :
                     InRange(M(w).customMarkers[i], w.viewOffset)

\* C8: every offset passed to the client's seekTo lies in [0, duration].
C8_SeekWithinDuration ==
    \A wk \in BagToSet(workers) :
        (/\ wk.kind = "seek" /\ wk.pc = "send"
         /\ \E q \in env.queueReplies :
               SeekCommand(wrappers[wk.w], wk.arg, q) = "seekTo")
        => (0 <= wk.arg /\ wk.arg <= M(wrappers[wk.w]).duration)

\* skip-to-next is permitted for the client of w
SkipNextPermitted(w) ==
    LET names == {Title(w.clientIdentifier), w.clientIdentifier}
    IN  /\ settings.skipnext
        /\ settings.allowedSkipNext = {} \/ names \cap settings.allowedSkipNext # {}
        /\ names \cap settings.blockedSkipNext = {}

\* C10: checkMedia on a session that is not seeking runs the skip check, the volume
\* check and the end-of-playback check, whatever the first two dispatched; the
\* end-of-playback check dispatches seekTo(session, duration) if viewOffset >=
\* duration - durationOffset and skip-to-next is permitted, and nothing otherwise.
C10_EndOfPlayback ==
    [][\A t \in Threads :
          LET w == wrappers[cur[t]] IN
          /\ (pc[t] = "guard" /\ pc'[t] # "guard" /\ ~w.seeking) => pc'[t] = "skip"
          /\ (pc[t] = "skip" /\ pc'[t] # "skip") => pc'[t] = "volume"
          /\ (pc[t] = "volume" /\ pc'[t] # "volume") => pc'[t] = "end"
          /\ (pc[t] = "end" /\ pc'[t] # "end") =>
                IF /\ w.viewOffset >= M(w).duration - settings.durationOffset
                   /\ SkipNextPermitted(w)
                THEN workers' = workers (+)
                                SetToBag({SeekWorker(cur[t], M(w).duration, "end")})
                ELSE workers' = workers]_vars

\* the control loop has dispatched the end-of-playback seek in a tick whose skip
\* check dispatched a seek too (its worker has set the seeking flag since)
C10_Witness ==
    /\ pc["loop"] = "stale"
    /\ wrappers[cur["loop"]].seeking
    /\ \E wk \in BagToSet(workers) :
          wk.w = cur["loop"] /\ wk.source = "end" /\ wk.pc = "start"

\* the control loop leaves the end-of-playback check for a tracked session
LoopEndCheck == pc["loop"] = "end" /\ pc'["loop"] # "end" /\ cur["loop"] \in Tracked

\* C11 as stated: a tracked session at 590000 ms of 600000 ms with durationOffset 5000
\* and skip-next enabled makes the tick dispatch the go-to-next seek.
C11_AdvanceAt590000 ==
    [][(/\ LoopEndCheck
        /\ wrappers[cur["loop"]].viewOffset = 590000
        /\ M(wrappers[cur["loop"]]).duration = 600000
        /\ settings.durationOffset = 5000 /\ settings.skipnext)
       => workers' = workers (+)
                     SetToBag({SeekWorker(cur["loop"], 600000, "end")})]_vars

\* C11 amended: with duration 600000, durationOffset 5000 and skip-next enabled the
\* tick dispatches the go-to-next seek for a tracked session at 595000 ms or later and
\* nothing at 590000 ms, and the worker of that seek sends skipNext to a client whose
\* session has no play queue or whose play queue cannot be fetched.
C11_AdvanceAtThreshold ==
    [][/\ (/\ LoopEndCheck
            /\ M(wrappers[cur["loop"]]).duration = 600000
            /\ settings.durationOffset = 5000 /\ settings.skipnext)
           => IF wrappers[cur["loop"]].viewOffset >= 595000
              THEN workers' = workers (+)
                              SetToBag({SeekWorker(cur["loop"], 600000, "end")})
              ELSE workers' = workers
       /\ \A wk \in BagToSet(workers) :
             (wk.source = "end" /\ wk.pc = "send" /\ Steps(wk)) =>
                 LET c == wrappers[wk.w].clientIdentifier
                 IN  /\ wrappers[wk.w].playQueueID = 0 =>
                           sent'[c] = [cmd |-> "skipNext", arg |-> 600000,
                                       duration |-> 600000,
                                       playQueueID |-> 0, queue |-> "none"]
                     /\ (sent'[c] # sent[c] /\ sent'[c].queue = "fail") =>
                           sent'[c].cmd = "skipNext"]_vars

\* the client of a tracked session without play queue has received skipNext from the
\* worker of the go-to-next seek, and the control loop is running
C11_Witness ==
    /\ sent["c1"] = [cmd |-> "skipNext", arg |-> 600000, duration |-> 600000,
                     playQueueID |-> 0, queue |-> "none"]
    /\ \E o \in Tracked : wrappers[o].playQueueID = 0 /\ wrappers[o].seeking
    /\ pc["loop"] = "guard"

\* the command c is a seek to the end of the content with skip-next enabled
TargetsEnd(c) == settings.skipnext /\ c.arg >= c.duration - settings.durationOffset

\* C12: a seek that targets the end of the content (target >= duration - durationOffset
\* with skip-next enabled) of a session whose play queue is reachable and ends with the
\* current content is sent as a plain seekTo(target), never as skipNext; skipNext is
\* sent only for a target at the end when the play queue has a later item, cannot be
\* fetched, or the session has no play-queue id.
C12_LastItemPlainSeek ==
    \A c \in Clients :
        /\ (TargetsEnd(sent[c]) /\ sent[c].playQueueID # 0 /\ sent[c].queue = "last")
               => sent[c].cmd = "seekTo"
        /\ sent[c].cmd = "skipNext"
               => /\ TargetsEnd(sent[c])
                  /\ \/ sent[c].playQueueID = 0
                     \/ sent[c].queue \in {"more", "fail"}

\* a client was sent a plain seek to the end of the content because its play queue ends
\* with the current content
C12_Witness ==
    /\ TargetsEnd(sent["c1"]) /\ sent["c1"].arg = 6
    /\ sent["c1"].playQueueID = 1 /\ sent["c1"].queue = "last"
    /\ sent["c1"].cmd = "seekTo"

\* C13: skipNext is never sent to a client for which skip-to-next is not permitted by
\* the skip-next allow and block lists, whichever seek (marker, chapter, custom range
\* or end of playback) targets the end of the content.
C13_AdvanceOnlyIfPermitted ==
    \A c \in Clients :
        sent[c].cmd = "skipNext" => SkipNextPermitted([clientIdentifier |-> c])

\* processAlert has just decided on a new session that has a custom range and a
\* player addSession accepts
DecidesCustom ==
    /\ decided' # decided
    /\ Len(MediaOf(decided'.media).customMarkers) > 0
    /\ decided'.hasPlayer
    /\ validPlayer(Product(decided'.pid[2]), decided'.version)

\* C14: a newly observed session that the admission rules reject (user or client
\* lists, or any rule of shouldAdd) but that has at least one custom range is tracked
\* in custom-only mode: addSession runs for it with customOnly = true.
C14_RejectedCustomTracked ==
    [][(DecidesCustom /\ (decided'.blocked \/ ~decided'.add))
       => /\ pc'["evt"] = "guard"
          /\ wrappers'[cur'["evt"]].pid = decided'.pid
          /\ wrappers'[cur'["evt"]].customOnly]_vars

\* C15: a session tracked with customOnly = true is acted upon solely through its
\* custom ranges: a seek the skip check dispatches for it comes from a custom skip
\* range, and its volume is lowered only inside a custom volume range.
C15_CustomOnlyCustomRanges ==
    [][\A t \in Threads :
          LET w == wrappers[cur[t]] IN
          /\ (Dispatches(t, {"skip"}) /\ w.customOnly) => Started.source = "custom"
          /\ (Dispatches(t, {"volume"}) /\ w.customOnly /\ Started.lowering)
                => \E i \in DOMAIN M(w).customMarkers :
                      /\ IsVolume(M(w).customMarkers[i])
                      /\ InRange(M(w).customMarkers[i], w.viewOffset)]_vars

\* C16: when the listener has disconnected and start() restarts the control loop, the
\* session registry is empty, and no session tracked before the disconnect is
\* evaluated by a tick after the restart.
C16_RestartClearsSessions ==
    [][/\ (pc["evt"] = "down" /\ pc'["evt"] = "idle") => media_sessions' = << >>
       /\ (pc["loop"] = "iter" /\ pc'["loop"] = "guard")
             => ~wrappers'[cur'["loop"]].before]_vars

\* a dotted version of three parts as one number
Dotted(v) == v[1] * 1000000 + v[2] * 1000 + v[3]

\* the decision d is about a client of the broken-client table at or above its version
BrokenClient(d) ==
    /\ Product(d.pid[2]) \in DOMAIN BROKEN_CLIENTS
    /\ Dotted(d.version) >= Dotted(BROKEN_CLIENTS[Product(d.pid[2])])

\* addSession is running for the session of the last decision, or has inserted it
Adding == pc["evt"] \in {"guard", "skip", "volume", "end", "stale", "insert"}

\* C17: a session whose client product is in the broken-client table with a version at
\* or above the broken one (compared part by part as numbers) is never inserted into
\* the registry, whatever the lists and the custom ranges; with a product outside the
\* table or a version below ('Plex for Windows' 1.46.0) a session with a player that
\* is admitted, or rejected by shouldAdd with a custom range, is added.
C17_BrokenClientRejected ==
    [][/\ (decided' # decided /\ BrokenClient(decided'))
             => /\ pc'["evt"] = "idle"
                /\ ~InRegistry(media_sessions', decided'.pid)
       /\ (Adding /\ pc'["evt"] = "idle" /\ media_sessions' # media_sessions)
             => ~BrokenClient(decided)
       /\ (/\ decided' # decided /\ ~BrokenClient(decided')
           /\ decided'.hasPlayer /\ ~decided'.blocked
           /\ decided'.add \/ Len(MediaOf(decided'.media).customMarkers) > 0)
             => /\ pc'["evt"] = "guard"
                /\ wrappers'[cur'["evt"]].pid = decided'.pid]_vars

\* 'Plex for Windows' 1.46.1 with a custom range, not blocked and admitted by
\* shouldAdd, has been seen: it is on the ignore list and not in the registry
C17_Witness ==
    /\ decided.pid = <<1, "c2">> /\ decided.version = <<1, 46, 1>>
    /\ decided.hasPlayer /\ ~decided.blocked /\ decided.add
    /\ Len(MediaOf(decided.media).customMarkers) > 0
    /\ decided.pid \in Range(ignored)
    /\ ~InRegistry(media_sessions, decided.pid)
    /\ pc["evt"] = "idle"

\* C18: content with episodeNumber = 1 and seasonNumber = 1 under the policy 'never'
\* for the first episode of a series is rejected by shouldAdd for every combination of
\* the other lists and settings, also with its own, its parent's or its
\* grandparent's key on the allowed-keys list.
C18_FirstEpisodeNever ==
    (/\ decided # NoDecision
     /\ decided.media.content.episodeNumber = 1
     /\ decided.media.content.seasonNumber = 1
     /\ settings.skipS01E01 = NEVER)
    => ~decided.add

\* the first episode of a series, of an admitted type and library and watched, whose
\* own key is on the allowed-keys list, has been rejected under the policy 'never'
\* for the series while the policy for seasons is 'always': it is on the ignore list
C18_Witness ==
    /\ decided.media.content = Content("episode", "TV Shows", 1, 1, TRUE)
    /\ settings.skipS01E01 = NEVER /\ settings.skipE01 = ALWAYS
    /\ settings.allowedKeys = {10} /\ settings.blockedKeys = {}
    /\ settings.ignoredlibraries = {}
    /\ ~decided.add /\ ~decided.blocked
    /\ decided.pid \in Range(ignored)

\* C19: the ignore list never holds more than IGNORED_CAP identities; an identity
\* added at capacity drops the oldest one; and nothing is added to the ignore list or
\* handed to addSession for an identity that is on the ignore list.
C19_IgnoreListCapped ==
    [][/\ Len(ignored') <= IGNORED_CAP
       /\ ignored' # ignored =>
             LET pid == ignored'[Len(ignored')]
             IN  /\ pid \notin Range(ignored)
                 /\ ignored' = IF Len(ignored) = IGNORED_CAP
                                THEN Append(Tail(ignored), pid)
                                ELSE Append(ignored, pid)
       /\ (pc["evt"] = "idle" /\ pc'["evt"] = "guard")
             => wrappers'[cur'["evt"]].pid \notin Range(ignored)]_vars

\* the ignore list is full, and its oldest identity has been dropped for a newer one
C19_Witness ==
    /\ Len(ignored) = IGNORED_CAP
    /\ ignored[1] = <<2, "c2">>
    /\ ignored[IGNORED_CAP] = <<IGNORED_CAP + 1, "c2">>

\* C20: registry mutation is safe under concurrency: in every interleaving of the
\* control loop, the workers and the event path no error ends the control loop or the
\* event callback, and the registry holds each identity once, on a live object.
C20_RegistrySafe ==
    /\ \A t \in Threads : pc[t] # "KeyError"
    /\ \A i, j \in DOMAIN media_sessions :
          /\ wrappers[media_sessions[i]] # NoWrapper
          /\ wrappers[media_sessions[i]].pid = wrappers[media_sessions[j]].pid => i = j

\* the progress of a worker: twice the number of its rejected sends, plus one while
\* it is about to send
Rank(wk) == 2 * wk.sends + (IF wk.pc = "send" THEN 1 ELSE 0)

\* C21: for every sequence of client responses a dispatched seek or volume worker
\* terminates, having sent the command at most twice: a worker about to send has sent
\* at most once, a worker that was rejected twice has no client left to retry on, a
\* worker that was rejected once retries only on a client of a product that is not
\* proxy-only, which is no longer proxied, and every step of a worker either ends it
\* or moves it forward (start, send, start, send, start: at most five steps).
C21_TwoAttempts ==
    /\ [](\A wk \in BagToSet(workers) :
            /\ wk.sends <= 2
            /\ wk.pc = "send" => wk.sends <= 1
            /\ wk.sends = 2 => ~wk.player
            /\ (wk.sends = 1 /\ wk.player)
                  => /\ Product(wrappers[wk.w].clientIdentifier) \notin PROXY_ONLY
                     /\ ~wrappers[wk.w].proxied)
    /\ [][\A wk \in BagToSet(workers) :
            Steps(wk) =>
                \/ BagCardinality(workers') < BagCardinality(workers)
                \/ \E wk2 \in BagToSet(workers') :
                      /\ CopiesIn(wk2, workers') > CopiesIn(wk2, workers)
                      /\ wk2.w = wk.w /\ wk2.kind = wk.kind
                      /\ Rank(wk2) > Rank(wk)]_vars

\* a worker has sent its command twice, the second time on the recovered client, and
\* was rejected both times
C21_Witness ==
    \E wk \in BagToSet(workers) :
        /\ wk.sends = 2 /\ wk.bad /\ wk.pc = "start"
        /\ ~wrappers[wk.w].proxied

\* C22: the volume check pads server markers as the skip check does: when the volume
\* check runs for a session in lower-volume mode whose only ranges are server markers,
\* shouldLowerMediaVolume holds if and only if checkMediaSkip would fire for the same
\* session in skip mode, that is if and only if some marker has
\* marker.start + leftOffset <= p <= marker.end.
C22_SamePadding ==
    \A t \in Threads :
        (/\ pc[t] = "volume"
         /\ wrappers[cur[t]].media.mode = VOLUME
         /\ M(wrappers[cur[t]]).customMarkers = << >>
         /\ M(wrappers[cur[t]]).chapters = << >>
         /\ M(wrappers[cur[t]]).lastchapter = NoRange)
        => LET w == wrappers[cur[t]]
               l == leftOffsetOf(w)
               r == rightOffsetOf(w)
               twin == [w EXCEPT !.media.mode = SKIP]
               lower == shouldLowerMediaVolume(w, l, r)
           IN  /\ lower <=> checkMediaSkip(twin, l, r).fire
               /\ lower <=> \E i \in DOMAIN M(w).markers :
                               /\ M(w).markers[i].start + l <= w.viewOffset
                               /\ w.viewOffset <= M(w).markers[i].end

\* C23: key-based admission is asymmetric. Content whose own, parent or grandparent
\* key is on the blocked-keys list is rejected, also with another of its keys on the
\* allowed-keys list; with a configured allowed-keys list content none of whose keys
\* is on it is rejected; and admitted content passes every other rule (type, library,
\* first-episode policies, watched state) whatever the allowed-keys list holds.
C23_BlockedKeyWins ==
    decided # NoDecision =>
        LET media == decided.media.content
            keys == {media.ratingKey, media.parentRatingKey, media.grandparentRatingKey}
        IN  /\ keys \cap settings.blockedKeys # {} => ~decided.add
            /\ (settings.allowedKeys # {} /\ keys \cap settings.allowedKeys = {})
                  => ~decided.add
            /\ decided.add =>
                  /\ media.type \in settings.types
                  /\ Lower(media.librarySectionTitle) \notin settings.ignoredlibraries
                  /\ media.episodeNumber = 1 =>
                        /\ settings.skipE01 # NEVER
                        /\ settings.skipE01 = WATCHED => media.isWatched
                  /\ (media.episodeNumber = 1 /\ media.seasonNumber = 1) =>
                        /\ settings.skipS01E01 # NEVER
                        /\ settings.skipS01E01 = WATCHED => media.isWatched
                  /\ settings.skipunwatched \/ media.isWatched

\* content that passes every other rule, with its own key on the allowed-keys list and
\* its parent's key on the blocked-keys list, has been rejected and put on the ignore
\* list
C23_Witness ==
    /\ decided.media.content = Content("episode", "TV Shows", 2, 2, TRUE)
    /\ settings.allowedKeys = {10} /\ settings.blockedKeys = {20}
    /\ settings.ignoredlibraries = {}
    /\ ~decided.add /\ ~decided.blocked
    /\ decided.pid \in Range(ignored)

\* C24: a seek fired for a range makes progress: once the client has carried out the
\* seek and an event has cleared the seeking flag with the position unchanged, the
\* skip check does not fire for the same range (same source, same target) again.
C24_SeekMakesProgress ==
    \A t \in Threads :
        pc[t] = "skip" =>
            LET w == wrappers[cur[t]]
                x == checkMediaSkip(w, leftOffsetOf(w), rightOffsetOf(w))
            IN  ~(/\ w.done.fire /\ w.synced
                  /\ w.viewOffset = w.done.target /\ ~w.seeking
                  /\ x.fire /\ x.source = w.done.source
                  /\ ClampTarget(x.target, M(w).duration) = w.done.target)

\* C25: in every reachable state no session identity is both in the session registry
\* and on the ignore list, and the ignore list holds no identity twice.
C25_IgnoredApartFromTracked ==
    /\ \A i \in DOMAIN media_sessions :
          wrappers[media_sessions[i]].pid \notin Range(ignored)
    /\ \A i, j \in DOMAIN ignored : ignored[i] = ignored[j] => i = j

\* the ignore list is at capacity, more sessions than it can hold have been seen, and
\* the first session is tracked
C25_Witness ==
    /\ Len(ignored) = IGNORED_CAP
    /\ InRegistry(media_sessions, <<1, "c2">>)
    /\ LastKey > IGNORED_CAP

\* C9: at most one tracked session belongs to a given client identifier.
C9_OneSessionPerClient ==
    \A i, j \in DOMAIN media_sessions :
        i # j => wrappers[media_sessions[i]].clientIdentifier
                 # wrappers[media_sessions[j]].clientIdentifier

\* addSession is running for a new session of a client whose older session, tracked
\* until then, has just been removed by purgeOldSessions (the control loop or a worker
\* still holds it)
C9_Witness ==
    /\ pc["evt"] = "guard"
    /\ \E o \in ObjIds \ (Tracked \cup {cur["evt"]}) :
          /\ wrappers[o] # NoWrapper
          /\ wrappers[o].purged
          /\ wrappers[o].clientIdentifier = wrappers[cur["evt"]].clientIdentifier
          /\ wrappers[o].pid # wrappers[cur["evt"]].pid

====
